---- MODULE Spec2Model ----
(***************************************************************************)
(* Kayak reviews scraper (src/main.py): the POST /scrape handler, the      *)
(* scrape session it drives (browser launch, navigation, reviews panel,    *)
(* sort filter, pagination loop) and the per-page extractor with its       *)
(* dedup set.                                                              *)
(*                                                                         *)
(* A request is a coroutine; pc[r] is the await it is suspended at.  The   *)
(* browser and the web page are the environment: every Playwright call     *)
(* either completes with one of its possible results or raises, and the    *)
(* actions choose among these outcomes.  browser.close() is taken to       *)
(* complete.  The statements between two awaits run without interleaving   *)
(* (one event loop), so each action is one such stretch of the handler.    *)
(***************************************************************************)
EXTENDS Naturals, Sequences, FiniteSets, TLC

VARIABLES
    pc,                     \* per request: the await the coroutine is at
    url, filter_option, max_pages,      \* parameters of scrape_endpoint
    current_page,           \* local of scrape_kayak_reviews
    reviews_data,           \* local list of scrape_kayak_reviews
    scraped_review_texts,   \* local set of scrape_kayak_reviews
    browser,                \* "none" (not in locals), "open", "closed"
    exc,                    \* exception raised inside scrape_kayak_reviews
    next_btn,               \* what the loop last found out about next_btn
    status,                 \* HTTP status of the response, 0 = none yet
    body,                   \* CSV content delivered in the response
    file,                   \* content of /tmp/kayak_reviews.csv
    hist,                   \* per request: counts of the calls it has made
    xin, xout               \* arguments and result of one extractor call

vars == <<pc, url, filter_option, max_pages, current_page, reviews_data,
          scraped_review_texts, browser, exc, next_btn, status, body, file,
          hist, xin, xout>>

-----------------------------------------------------------------------------
(* Bounds of the model *)

\* nodes on one page seen by a session
PageLen == 2
\* nodes on the page handed to a single extractor call
MaxNodes == 3
\* requests in flight at once
NumReqs == 2

(* Program constants: the accepted range of max_pages *)
MinPages == 1
MaxPagesLimit == 10

-----------------------------------------------------------------------------
(* Inputs *)

Urls == {"https://k", "ftp://k", "HTTP://k", "htt", ""}
Filters == {"recent", "top"}
PageCounts == (MinPages - 1) .. (MaxPagesLimit + 1)

\* Outcomes of query_selector + inner_text on one field of a review node
\* that are not a text: no such element, and the call raising.
NoElem == "<no element>"
Raises == "<raises>"

AuthorOutcomes == {"ann", Raises}
ScoreOutcomes  == {"9"}
TextOutcomes   == {"good", "bad", "", NoElem, Raises}
DateOutcomes   == {"1 nov"}

Nodes == [author : AuthorOutcomes, score : ScoreOutcomes,
          text : TextOutcomes, date : DateOutcomes]

SeqsUpTo(S, n) == UNION {[1..k -> S] : k \in 0..n}

\* The pages of a session are made of the nodes whose text is read; the
\* nodes whose text is missing or fails to be read are met in ExtractSpec.
SessionNodes == {n \in Nodes : n.text \notin {NoElem, Raises}}
SessionPages == SeqsUpTo(SessionNodes, PageLen)
ExtractPages == SeqsUpTo(Nodes, MaxNodes)

-----------------------------------------------------------------------------
(* Extractor *)

\* safe_get_text without its try/except: the raise reaches the caller
safe_get_text_NoExcept(node, selector) ==
    IF node[selector] = NoElem THEN "" ELSE node[selector]

safe_get_text(node, selector) ==
    IF node[selector] = Raises THEN ""          \* except Exception: return ""
    ELSE IF node[selector] = NoElem THEN ""     \* elem is None
    ELSE node[selector]                         \* await elem.inner_text()

\* ReviewStep without `or text in scraped_review_texts`
ReviewStep_NoDedup(st, review) ==
    LET text == safe_get_text(review, "text")
        next == [st EXCEPT !.visited = @ + 1]
    IN  IF text = ""
        THEN next
        ELSE [next EXCEPT
                !.seen = @ \cup {text},
                !.data = Append(@, [Author |-> safe_get_text(review, "author"),
                                    Score |-> safe_get_text(review, "score"),
                                    Date |-> safe_get_text(review, "date"),
                                    Text |-> text]),
                !.new_count = @ + 1]

\* ReviewStep without scraped_review_texts.add(text)
ReviewStep_NoAdd(st, review) ==
    LET text == safe_get_text(review, "text")
        next == [st EXCEPT !.visited = @ + 1]
    IN  IF text = "" \/ text \in st.seen
        THEN next
        ELSE [next EXCEPT
                !.data = Append(@, [Author |-> safe_get_text(review, "author"),
                                    Score |-> safe_get_text(review, "score"),
                                    Date |-> safe_get_text(review, "date"),
                                    Text |-> text]),
                !.new_count = @ + 1]

\* One iteration of `for review in reviews`; st is the extractor's state.
ReviewStep(st, review) ==
    LET author == safe_get_text(review, "author")
        score  == safe_get_text(review, "score")
        text   == safe_get_text(review, "text")
        date   == safe_get_text(review, "date")
        next   == [st EXCEPT !.visited = @ + 1]
    IN  IF Raises \in {author, score, text, date}
        THEN next                               \* except Exception as e: print
        ELSE IF text = "" \/ text \in st.seen
        THEN next                               \* continue
        ELSE [next EXCEPT
                !.seen = @ \cup {text},
                !.data = Append(@, [Author |-> author, Score |-> score,
                                    Date |-> date, Text |-> text]),
                !.new_count = @ + 1]

RECURSIVE ReviewLoop(_, _)
ReviewLoop(st, reviews) ==
    IF reviews = <<>> THEN st
    ELSE ReviewLoop(ReviewStep(st, Head(reviews)), Tail(reviews))

extract_reviews_from_kayak_page(reviews, data, seen) ==
    ReviewLoop([data |-> data, seen |-> seen, new_count |-> 0, visited |-> 0],
               reviews)

-----------------------------------------------------------------------------
(* Exporter *)

CsvHeader == <<"Author", "Score", "Date", "Text">>

to_csv(data) ==
    <<CsvHeader>> \o
    [i \in 1..Len(data) |->
        <<data[i].Author, data[i].Score, data[i].Date, data[i].Text>>]


-----------------------------------------------------------------------------
(* Requests *)

\* hist: calls made so far (ferrors: filter warnings printed)
NoCalls == [launches |-> 0, gotos |-> 0, lookups |-> 0, fclicks |-> 0,
            ferrors |-> 0, passes |-> 0, clicks |-> 0, closes |-> 0,
            returns |-> 0, writes |-> 0]

\* The state before any request has been received, for the requests R.
InitRequests(R) ==
    /\ pc = [r \in R |-> "idle"]
    /\ url = [r \in R |-> ""]
    /\ filter_option = [r \in R |-> "recent"]
    /\ max_pages = [r \in R |-> 1]
    /\ current_page = [r \in R |-> 0]
    /\ reviews_data = [r \in R |-> <<>>]
    /\ scraped_review_texts = [r \in R |-> {}]
    /\ browser = [r \in R |-> "none"]
    /\ exc = [r \in R |-> "none"]
    /\ next_btn = [r \in R |-> "unknown"]
    /\ status = [r \in R |-> 0]
    /\ body = [r \in R |-> <<>>]
    /\ hist = [r \in R |-> NoCalls]
    /\ file = <<>>

Reqs == DOMAIN pc

Goto(r, label) == pc' = [pc EXCEPT ![r] = label]
\* the calls named in whats have been made once more
Called(r, whats) ==
    hist' = [hist EXCEPT ![r] =
                [k \in DOMAIN @ |-> IF k \in whats THEN @[k] + 1 ELSE @[k]]]

params == <<url, filter_option, max_pages>>
locals == <<current_page, reviews_data, scraped_review_texts>>
response == <<status, body>>
bench == <<xin, xout>>

\* FastAPI binds the query parameters and calls scrape_endpoint.
Receive(r, urls, filters, counts) ==
    /\ pc[r] = "idle"
    /\ \E u \in urls, f \in filters, n \in counts :
          /\ url' = [url EXCEPT ![r] = u]
          /\ filter_option' = [filter_option EXCEPT ![r] = f]
          /\ max_pages' = [max_pages EXCEPT ![r] = n]
    /\ Goto(r, "validate")
    /\ UNCHANGED <<locals, browser, exc, next_btn, response, file, hist, bench>>

startswith(s, prefix) ==
    /\ Len(s) >= Len(prefix)
    /\ SubSeq(s, 1, Len(prefix)) = prefix

UrlOk(u) == startswith(u, "http")

\* the range check without its upper limit
PagesOk_NoUpper(n) == ~(n < MinPages)

PagesOk(n) == ~(n < MinPages \/ n > MaxPagesLimit)

\* raise HTTPException(status_code=400) on a bad url or max_pages
Reject(r) ==
    /\ pc[r] = "validate"
    /\ ~UrlOk(url[r]) \/ ~PagesOk(max_pages[r])
    /\ status' = [status EXCEPT ![r] = 400]
    /\ Goto(r, "done")
    /\ UNCHANGED <<params, locals, browser, exc, next_btn, body, file, hist, bench>>

\* data = await scrape_kayak_reviews(url, filter_option, max_pages)
Accept(r) ==
    /\ pc[r] = "validate"
    /\ UrlOk(url[r]) /\ PagesOk(max_pages[r])
    /\ reviews_data' = [reviews_data EXCEPT ![r] = <<>>]
    /\ scraped_review_texts' = [scraped_review_texts EXCEPT ![r] = {}]
    /\ Goto(r, "playwright")
    /\ UNCHANGED <<params, current_page, browser, exc, next_btn, response, file, hist, bench>>

-----------------------------------------------------------------------------
(* scrape_kayak_reviews *)

\* raise inside the outer try: control goes to `except Exception as e`
Raise(r, e) ==
    /\ exc' = [exc EXCEPT ![r] = e]
    /\ Goto(r, "except")

\* await browser.close()
Close(r) == browser' = [browser EXCEPT ![r] = "closed"]

\* `while current_page <= max_pages`, evaluated with current_page = page
LoopHead(r, page) == IF page <= max_pages[r] THEN "extract" ELSE "close"

\* current_page = 1 and the first evaluation of the while condition
EnterLoop(r) ==
    /\ current_page' = [current_page EXCEPT ![r] = 1]
    /\ Goto(r, LoopHead(r, 1))

\* async with async_playwright() as p: entered outside the try
StartPlaywright(r) ==
    /\ pc[r] = "playwright"
    /\ \/ /\ Goto(r, "launch")
          /\ exc' = exc
       \/ /\ exc' = [exc EXCEPT ![r] = "Error"]
          /\ Goto(r, "raised")
    /\ UNCHANGED <<params, locals, browser, next_btn, response, file, hist, bench>>

\* browser = await p.chromium.launch(...)
Launch(r) ==
    /\ pc[r] = "launch"
    /\ Called(r, {"launches"})
    /\ \/ /\ browser' = [browser EXCEPT ![r] = "open"]
          /\ Goto(r, "new_context")
          /\ exc' = exc
       \/ /\ Raise(r, "Error")
          /\ browser' = browser
    /\ UNCHANGED <<params, locals, next_btn, response, file, bench>>

\* context = await browser.new_context(...)
NewContext(r) ==
    /\ pc[r] = "new_context"
    /\ \/ /\ Goto(r, "new_page")
          /\ exc' = exc
       \/ Raise(r, "Error")
    /\ UNCHANGED <<params, locals, browser, next_btn, response, file, hist, bench>>

\* page = await context.new_page()
NewPage(r) ==
    /\ pc[r] = "new_page"
    /\ \/ /\ Goto(r, "goto")
          /\ exc' = exc
       \/ Raise(r, "Error")
    /\ UNCHANGED <<params, locals, browser, next_btn, response, file, hist, bench>>

\* await page.goto(url, ...); await page.wait_for_timeout(3000)
Navigate(r) ==
    /\ pc[r] = "goto"
    /\ Called(r, {"gotos"})
    /\ \/ /\ Goto(r, "wait_panel")
          /\ exc' = exc
       \/ Raise(r, "Error")
    /\ UNCHANGED <<params, locals, browser, next_btn, response, file, bench>>

\* wait_for_selector succeeds; overall_score is read (safe_get_text does not
\* raise) and printed; then `if filter_option != "recent"`
PanelFound(r) ==
    /\ pc[r] = "wait_panel"
    /\ IF filter_option[r] # "recent"
       THEN /\ Goto(r, "filter_visible")
            /\ current_page' = current_page
       ELSE EnterLoop(r)
    /\ UNCHANGED <<params, reviews_data, scraped_review_texts, browser, exc,
                   next_btn, response, file, hist, bench>>

\* wait_for_selector raises: await browser.close(); raise HTTPException(400),
\* which is raised inside the outer try
PanelMissing(r) ==
    /\ pc[r] = "wait_panel"
    /\ Close(r)
    /\ Called(r, {"closes"})
    /\ Raise(r, "HTTP400")
    /\ UNCHANGED <<params, locals, next_btn, response, file, bench>>

\* FilterVisible without the try/except around the filter
FilterVisible_Propagates(r) ==
    /\ pc[r] = "filter_visible"
    /\ \/ /\ Called(r, {"lookups"})
          /\ Goto(r, "filter_click")
          /\ UNCHANGED <<current_page, exc>>
       \/ /\ Called(r, {"lookups"})
          /\ EnterLoop(r)
          /\ exc' = exc
       \/ /\ Called(r, {"lookups"})
          /\ Raise(r, "Error")
          /\ current_page' = current_page
    /\ UNCHANGED <<params, reviews_data, scraped_review_texts, browser,
                   next_btn, response, file, bench>>

\* filter_locator = page.locator(...); await filter_locator.is_visible()
\* inside try/except Exception
FilterVisible(r) ==
    /\ pc[r] = "filter_visible"
    /\ \/ /\ Called(r, {"lookups"})            \* visible
          /\ Goto(r, "filter_click")
          /\ current_page' = current_page
       \/ /\ Called(r, {"lookups"})            \* not visible
          /\ EnterLoop(r)
       \/ /\ Called(r, {"lookups", "ferrors"}) \* raised: except, print
          /\ EnterLoop(r)
    /\ UNCHANGED <<params, reviews_data, scraped_review_texts, browser, exc,
                   next_btn, response, file, bench>>

\* await filter_locator.click(); await page.wait_for_timeout(5000)
\* inside the same try/except Exception
FilterClick(r) ==
    /\ pc[r] = "filter_click"
    /\ \/ Called(r, {"fclicks"})                \* clicked
       \/ Called(r, {"fclicks", "ferrors"})     \* raised: except, print
    /\ EnterLoop(r)
    /\ UNCHANGED <<params, reviews_data, scraped_review_texts, browser, exc,
                   next_btn, response, file, bench>>

\* await extract_reviews_from_kayak_page(page, reviews_data,
\* scraped_review_texts); if current_page == max_pages: break
Extract(r, pages) ==
    /\ pc[r] = "extract"
    /\ Called(r, {"passes"})
    /\ \/ \E reviews \in pages :
            LET res == extract_reviews_from_kayak_page(
                           reviews, reviews_data[r], scraped_review_texts[r])
            IN  /\ reviews_data' = [reviews_data EXCEPT ![r] = res.data]
                /\ scraped_review_texts' =
                       [scraped_review_texts EXCEPT ![r] = res.seen]
                /\ Goto(r, IF current_page[r] = max_pages[r]
                           THEN "close" ELSE "next_count")
                /\ exc' = exc
       \/ /\ Raise(r, "Error")                  \* query_selector_all raises
          /\ UNCHANGED <<reviews_data, scraped_review_texts>>
    /\ next_btn' = [next_btn EXCEPT ![r] = "unknown"]
    /\ UNCHANGED <<params, current_page, browser, response, file, bench>>

\* NextCount with `and` for `or`: an absent control does not end the loop
NextCount_NoBreak(r) ==
    /\ pc[r] = "next_count"
    /\ \/ /\ next_btn' = [next_btn EXCEPT ![r] = "absent"]
          /\ Goto(r, "next_enabled")
          /\ exc' = exc
       \/ /\ next_btn' = [next_btn EXCEPT ![r] = "present"]
          /\ Goto(r, "click")
          /\ exc' = exc
       \/ /\ Raise(r, "Error")
          /\ next_btn' = next_btn
    /\ UNCHANGED <<params, locals, browser, response, file, hist, bench>>

\* next_btn = page.locator(...); `await next_btn.count() == 0`
NextCount(r) ==
    /\ pc[r] = "next_count"
    /\ \/ /\ next_btn' = [next_btn EXCEPT ![r] = "absent"]
          /\ Goto(r, "close")                   \* print; break
          /\ exc' = exc
       \/ /\ next_btn' = [next_btn EXCEPT ![r] = "present"]
          /\ Goto(r, "next_enabled")
          /\ exc' = exc
       \/ /\ Raise(r, "Error")
          /\ next_btn' = next_btn
    /\ UNCHANGED <<params, locals, browser, response, file, hist, bench>>

\* `or not await next_btn.is_enabled()`
NextEnabled(r) ==
    /\ pc[r] = "next_enabled"
    /\ \/ /\ next_btn' = [next_btn EXCEPT ![r] = "disabled"]
          /\ Goto(r, "close")                   \* print; break
          /\ exc' = exc
       \/ /\ next_btn' = [next_btn EXCEPT ![r] = "enabled"]
          /\ Goto(r, "click")
          /\ exc' = exc
       \/ /\ Raise(r, "Error")
          /\ next_btn' = next_btn
    /\ UNCHANGED <<params, locals, browser, response, file, hist, bench>>

\* await next_btn.click(); await page.wait_for_timeout(5000);
\* current_page += 1; then the while condition
NextClick(r) ==
    /\ pc[r] = "click"
    /\ Called(r, {"clicks"})
    /\ \/ /\ current_page' = [current_page EXCEPT ![r] = @ + 1]
          /\ Goto(r, LoopHead(r, current_page[r] + 1))
          /\ exc' = exc
       \/ /\ Raise(r, "Error")
          /\ current_page' = current_page
    /\ UNCHANGED <<params, reviews_data, scraped_review_texts, browser,
                   next_btn, response, file, bench>>

\* await browser.close(); return reviews_data
CloseAndReturn(r) ==
    /\ pc[r] = "close"
    /\ Close(r)
    /\ Called(r, {"closes", "returns"})
    /\ Goto(r, "returned")
    /\ UNCHANGED <<params, locals, exc, next_btn, response, file, bench>>

\* ExceptHandler that re-raises without closing the browser
ExceptHandler_NoClose(r) ==
    /\ pc[r] = "except"
    /\ Goto(r, "raised")
    /\ UNCHANGED <<params, locals, browser, exc, next_btn, response, file,
                   hist, bench>>

\* except Exception as e: if 'browser' in locals(): await browser.close();
\* raise e
ExceptHandler(r) ==
    /\ pc[r] = "except"
    /\ IF browser[r] # "none"
       THEN Close(r) /\ Called(r, {"closes"})
       ELSE UNCHANGED <<browser, hist>>
    /\ Goto(r, "raised")
    /\ UNCHANGED <<params, locals, exc, next_btn, response, file, bench>>

-----------------------------------------------------------------------------
(* scrape_endpoint after the call *)

\* except Exception as e: raise HTTPException(status_code=500)
EndpointExcept(r) ==
    /\ pc[r] = "raised"
    /\ status' = [status EXCEPT ![r] = 500]
    /\ Goto(r, "done")
    /\ UNCHANGED <<params, locals, browser, exc, next_btn, body, file, hist, bench>>

\* if not data: raise HTTPException(status_code=404)
RespondNotFound(r) ==
    /\ pc[r] = "returned"
    /\ reviews_data[r] = <<>>
    /\ status' = [status EXCEPT ![r] = 404]
    /\ Goto(r, "done")
    /\ UNCHANGED <<params, locals, browser, exc, next_btn, body, file, hist, bench>>

\* WriteCsv without the `if not data` check before it
WriteCsv_NoCheck(r) ==
    /\ pc[r] = "returned"
    /\ file' = to_csv(reviews_data[r])
    /\ Called(r, {"writes"})
    /\ Goto(r, "serve")
    /\ UNCHANGED <<params, locals, browser, exc, next_btn, response, bench>>

\* df.to_csv(output_path, ...); return FileResponse(output_path, ...)
\* pandas writes synchronously: no other coroutine runs during the write.
WriteCsv(r) ==
    /\ pc[r] = "returned"
    /\ reviews_data[r] # <<>>
    /\ file' = to_csv(reviews_data[r])
    /\ Called(r, {"writes"})
    /\ Goto(r, "serve")
    /\ UNCHANGED <<params, locals, browser, exc, next_btn, response, bench>>

\* The FileResponse is sent after the handler has returned: it opens and
\* reads output_path then, and delivers what the file holds at that time.
ServeFile(r) ==
    /\ pc[r] = "serve"
    /\ body' = [body EXCEPT ![r] = file]
    /\ status' = [status EXCEPT ![r] = 200]
    /\ Goto(r, "done")
    /\ UNCHANGED <<params, locals, browser, exc, next_btn, file, hist, bench>>

-----------------------------------------------------------------------------
(* One call of the extractor on its own *)

Records == [Author : {"ann", ""}, Score : {"9"}, Date : {"1 nov"},
            Text : {"good", "bad"}]

\* The accumulators a session can hold: records with distinct texts.
Accumulators ==
    {d \in SeqsUpTo(Records, Cardinality({rec.Text : rec \in Records})) :
        \A i, j \in 1..Len(d) : d[i].Text = d[j].Text => i = j}

TextsOf(d) == {d[i].Text : i \in 1..Len(d)}

BenchIdle ==
    /\ xin = [reviews |-> <<>>, data |-> <<>>, seen |-> {}]
    /\ xout = [done |-> TRUE, data |-> <<>>, seen |-> {}, new_count |-> 0,
               visited |-> 0]

ApplyExtract ==
    /\ ~xout.done
    /\ xout' = [done |-> TRUE] @@
               extract_reviews_from_kayak_page(xin.reviews, xin.data, xin.seen)
    /\ UNCHANGED <<pc, params, locals, browser, exc, next_btn, response, file,
                   hist, xin>>

-----------------------------------------------------------------------------
(* Specifications *)

\* One request, with every input and every page up to PageLen nodes.
SessionReqs == {1}

Init == InitRequests(SessionReqs) /\ BenchIdle

Next ==
    \/ \E r \in Reqs : Receive(r, Urls, Filters, PageCounts)
    \/ \E r \in Reqs : Reject(r)
    \/ \E r \in Reqs : Accept(r)
    \/ \E r \in Reqs : StartPlaywright(r)
    \/ \E r \in Reqs : Launch(r)
    \/ \E r \in Reqs : NewContext(r)
    \/ \E r \in Reqs : NewPage(r)
    \/ \E r \in Reqs : Navigate(r)
    \/ \E r \in Reqs : PanelFound(r)
    \/ \E r \in Reqs : PanelMissing(r)
    \/ \E r \in Reqs : FilterVisible(r)
    \/ \E r \in Reqs : FilterClick(r)
    \/ \E r \in Reqs : Extract(r, SessionPages)
    \/ \E r \in Reqs : NextCount(r)
    \/ \E r \in Reqs : NextEnabled(r)
    \/ \E r \in Reqs : NextClick(r)
    \/ \E r \in Reqs : CloseAndReturn(r)
    \/ \E r \in Reqs : ExceptHandler(r)
    \/ \E r \in Reqs : EndpointExcept(r)
    \/ \E r \in Reqs : RespondNotFound(r)
    \/ \E r \in Reqs : WriteCsv(r)
    \/ \E r \in Reqs : ServeFile(r)

Spec == Init /\ [][Next]_vars

\* Every await of Playwright completes or times out, and the event loop
\* resumes the coroutine: a request that can take a step takes one.
FairSpec == Spec /\ WF_vars(Next)

\* NumReqs requests served concurrently by the one event loop, each with
\* few inputs and pages of at most one node.
ConcUrls == {"http://k", "ftp://k"}
ConcCounts == {MinPages, MinPages + 1}
ConcPages ==
    SeqsUpTo({n \in Nodes : n.author = "ann" /\ n.text \in {"good", "bad"}}, 1)

ConcInit == InitRequests(1..NumReqs) /\ BenchIdle

ConcNext ==
    \/ \E r \in Reqs : Receive(r, ConcUrls, Filters, ConcCounts)
    \/ \E r \in Reqs : Reject(r)
    \/ \E r \in Reqs : Accept(r)
    \/ \E r \in Reqs : StartPlaywright(r)
    \/ \E r \in Reqs : Launch(r)
    \/ \E r \in Reqs : NewContext(r)
    \/ \E r \in Reqs : NewPage(r)
    \/ \E r \in Reqs : Navigate(r)
    \/ \E r \in Reqs : PanelFound(r)
    \/ \E r \in Reqs : PanelMissing(r)
    \/ \E r \in Reqs : FilterVisible(r)
    \/ \E r \in Reqs : FilterClick(r)
    \/ \E r \in Reqs : Extract(r, ConcPages)
    \/ \E r \in Reqs : NextCount(r)
    \/ \E r \in Reqs : NextEnabled(r)
    \/ \E r \in Reqs : NextClick(r)
    \/ \E r \in Reqs : CloseAndReturn(r)
    \/ \E r \in Reqs : ExceptHandler(r)
    \/ \E r \in Reqs : EndpointExcept(r)
    \/ \E r \in Reqs : RespondNotFound(r)
    \/ \E r \in Reqs : WriteCsv(r)
    \/ \E r \in Reqs : ServeFile(r)

ConcSpec == ConcInit /\ [][ConcNext]_vars

\* extract_reviews_from_kayak_page called once, on every page of up to
\* MaxNodes nodes and every accumulator a session can hold.
ExtractInit ==
    /\ InitRequests({})
    /\ xin \in [reviews : ExtractPages, data : Accumulators, seen : SUBSET {"good", "bad"}]
    /\ xin.seen = TextsOf(xin.data)
    /\ xout = [done |-> FALSE, data |-> <<>>, seen |-> {}, new_count |-> 0,
               visited |-> 0]

ExtractNext == ApplyExtract

ExtractSpec == ExtractInit /\ [][ExtractNext]_vars

-----------------------------------------------------------------------------
(* Properties *)

\* the request has been answered / the scrape routine has been left
Answered(r) == pc[r] = "done"
Left(r) == pc[r] \in {"returned", "raised", "serve", "done"}

\* C1: a valid request whose reviews panel never appears is answered with
\* status 400, and it writes no CSV file.
C1_PanelMissingIs400 ==
    \A r \in Reqs :
        Answered(r) /\ exc[r] = "HTTP400" =>
            status[r] = 400 /\ hist[r].writes = 0

\* C2: a request whose url does not start with "http", or whose max_pages
\* is below 1 or above 10, is answered with status 400 and never starts
\* Playwright, launches, navigates, extracts or writes.
BadInput(r) ==
    \/ Len(url[r]) < 4
    \/ SubSeq(url[r], 1, 4) # "http"
    \/ max_pages[r] < 1
    \/ max_pages[r] > 10

C2_BadInputRejected ==
    \A r \in Reqs :
        pc[r] # "idle" /\ BadInput(r) =>
            /\ pc[r] \in {"validate", "done"}
            /\ Answered(r) => status[r] = 400
            /\ hist[r] = NoCalls
            /\ browser[r] = "none"

C2_Witness ==
    \E r \in Reqs :
        /\ Answered(r) /\ status[r] = 400
        /\ max_pages[r] = 11 /\ url[r] = "https://k"

\* C3: when the scrape routine returns an empty list the answer is 404 and
\* no CSV is written; a CSV is written or served only for a non-empty list.
C3_EmptyIs404 ==
    \A r \in Reqs :
        /\ hist[r].returns > 0 /\ reviews_data[r] = <<>> =>
              /\ pc[r] \in {"returned", "done"}
              /\ Answered(r) => status[r] = 404
              /\ hist[r].writes = 0
        /\ hist[r].writes > 0 \/ status[r] = 200 =>
              Len(reviews_data[r]) >= 1

C3_Witness ==
    \E r \in Reqs :
        /\ status[r] = 404 /\ hist[r].writes = 0
        /\ hist[r].passes = max_pages[r] /\ max_pages[r] = 3

\* C4: at every moment of a session no two accumulated records have the
\* same Text and no record has an empty Text.
C4_TextsDistinct ==
    \A r \in Reqs :
        \A i, j \in 1..Len(reviews_data[r]) :
            /\ reviews_data[r][i].Text # ""
            /\ reviews_data[r][i].Text = reviews_data[r][j].Text => i = j

C4_Witness ==
    \E r \in Reqs :
        /\ hist[r].passes = 3
        /\ Len(reviews_data[r]) = 2
        /\ reviews_data[r][1].Author # reviews_data[r][2].Author

\* C6: once scrape_kayak_reviews has returned or raised, a browser that was
\* launched has had close called on it and is closed.
C6_BrowserClosed ==
    \A r \in Reqs :
        Left(r) /\ browser[r] # "none" =>
            browser[r] = "closed" /\ hist[r].closes >= 1

C6_Witness ==
    \E r \in Reqs :
        /\ pc[r] = "raised" /\ exc[r] = "Error"
        /\ hist[r].passes = 2
        /\ browser[r] = "closed"

\* C10: the CSV delivered to a request is the CSV of the records its own
\* session accumulated, whatever other requests are in flight.
C10_OwnRecordsServed ==
    \A r \in Reqs :
        status[r] = 200 => body[r] = to_csv(reviews_data[r])

\* C5: a session with max_pages = N makes at most N extraction passes and
\* at most N-1 next-page clicks and always leaves the loop; once the next
\* control is found absent or disabled the session clicks no more, raises
\* nothing and returns its records.
NextGone(r) == next_btn[r] \in {"absent", "disabled"}

InFilter(r) == pc[r] \in {"filter_visible", "filter_click"}

C8_FilterBestEffort ==
    /\ [](\A r \in SessionReqs :
            filter_option[r] = "recent" =>
                hist[r].lookups = 0 /\ hist[r].fclicks = 0 /\ ~InFilter(r))
    /\ [][\A r \in SessionReqs :
            InFilter(r) /\ pc'[r] # pc[r] =>
                /\ pc'[r] \in {"filter_click", "extract"}
                /\ pc'[r] = "filter_click" => pc[r] = "filter_visible"]_vars
    /\ [](\A r \in SessionReqs :
            (InFilter(r) \/ pc[r] = "extract") /\ hist[r].passes = 0 =>
                /\ exc[r] = "none" /\ browser[r] = "open" /\ status[r] = 0
                /\ reviews_data[r] = <<>> /\ scraped_review_texts[r] = {}
                /\ pc[r] = "extract" => current_page[r] = 1)
    /\ \A r \in SessionReqs : InFilter(r) ~> (hist[r].passes >= 1)

C8_Witness ==
    \E r \in Reqs :
        /\ filter_option[r] = "top"
        /\ hist[r].lookups = 1 /\ hist[r].fclicks = 0 /\ hist[r].ferrors = 1
        /\ status[r] = 200

\* What one extractor call is expected to read from a node: the text of a
\* field, or "" when the element is missing or the read raises.
FieldOf(node, field) ==
    IF node[field] \in {NoElem, Raises} THEN "" ELSE node[field]

RecordOf(node) ==
    [Author |-> FieldOf(node, "author"), Score |-> FieldOf(node, "score"),
     Date |-> FieldOf(node, "date"), Text |-> FieldOf(node, "text")]

\* The nodes of the call that carry a text which is not empty, not in the
\* dedup set at the start and not carried by an earlier node of the page.
Fresh ==
    {i \in 1..Len(xin.reviews) :
        /\ FieldOf(xin.reviews[i], "text") # ""
        /\ FieldOf(xin.reviews[i], "text") \notin xin.seen
        /\ \A j \in 1..(i - 1) :
              FieldOf(xin.reviews[j], "text") # FieldOf(xin.reviews[i], "text")}

\* position among the new records of the record of fresh node i
Rank(i) == Cardinality({j \in Fresh : j <= i})

\* C7: the extractor returns the number of fresh nodes; the accumulator and
\* the dedup set grow by that number; the old records stay in place and
\* the new ones follow them in node order.
C7_CountIsGrowth ==
    xout.done =>
        /\ xout.new_count = Cardinality(Fresh)
        /\ Len(xout.data) = Len(xin.data) + xout.new_count
        /\ Cardinality(xout.seen) = Cardinality(xin.seen) + xout.new_count
        /\ SubSeq(xout.data, 1, Len(xin.data)) = xin.data
        /\ \A i \in Fresh :
              xout.data[Len(xin.data) + Rank(i)].Text
                  = FieldOf(xin.reviews[i], "text")

C7_Witness ==
    /\ xout.done /\ xin.seen = {}
    /\ Len(xin.reviews) = 3
    /\ xin.reviews[1].text = "good" /\ xin.reviews[2].text = "bad"
    /\ xin.reviews[3].text = "good"
    /\ xout.new_count = 2

\* C9: a field whose read fails is "" in the record and the other fields
\* keep their texts; a failing read aborts nothing: every node of the page
\* is visited, every fresh node yields its record, and the records held
\* before the call are unchanged.
C9_FailuresContained ==
    xout.done =>
        /\ xout.visited = Len(xin.reviews)
        /\ Len(xout.data) = Len(xin.data) + Cardinality(Fresh)
        /\ \A k \in 1..Len(xin.data) : xout.data[k] = xin.data[k]
        /\ \A i \in Fresh :
              xout.data[Len(xin.data) + Rank(i)] = RecordOf(xin.reviews[i])

C9_Witness ==
    /\ xout.done /\ Len(xin.data) = 1
    /\ Len(xin.reviews) = 3
    /\ xin.reviews[1].text = Raises
    /\ xin.reviews[2].author = Raises /\ 2 \in Fresh
    /\ xin.reviews[3].text = NoElem
    /\ xout.data[2].Author = "" /\ xout.data[2].Text # ""
    /\ xout.visited = 3

====
